---- MODULE Spec2Model ----
(***************************************************************************)
(* A model of global-logrotate (cmd/global-logrotate/main.go): the         *)
(* rotation engine (rotateSequential, rotateParallel, rotateLogFile), the  *)
(* credential resolver (getEncryptionPassword) and the part of main and    *)
(* parseFlags that builds the run's Config.  One behaviour is a sequence   *)
(* of runs of the program (one process at a time) over one directory tree, *)
(* with a clock that may advance at any moment.  The program's own log     *)
(* (initLogger, logWrite) goes to cfg.LogFile, which lies outside the      *)
(* target and archive directories, and is not part of the model.           *)
(***************************************************************************)
EXTENDS Integers, Sequences, FiniteSets, TLC

(***************************************************************************)
(* Bounds of the model.                                                    *)
(***************************************************************************)
NumFiles == 3     \* log files in the tree
MaxJobs == 2      \* largest --parallel value tried
MaxRuns == 2      \* runs of the program in one behaviour
MaxClock == 2     \* last clock value (seconds)
SecPerDay == 2    \* seconds in a model day
MaxFaults == 1    \* I/O failures and outside removals injected per behaviour
MaxSalt == 1      \* values rand.Read may produce
MaxPlain == 2     \* longest plaintext given to encryptData on its own
MaxSetups == 2    \* invocations of --pass-gen and --pass-reset in one behaviour
MaxLogLen == 3    \* longest log file a writer appending to it produces

Paths == 1..NumFiles
Salts == 1..MaxSalt
Passwords == {"pw1", "pw2"}

(***************************************************************************)
(* The file system.  A directory is a tuple of path components, a file     *)
(* path a record of its directory and its base name.  The target directory *)
(* (cfg.LogDir) is <<0>>; log file p lives in its own subdirectory         *)
(* <<0, p>>; files 1 and 3 share one base name.                            *)
(***************************************************************************)
LogDir == <<0>>
\* An archive of log file p is a file of the tree as well: entry NumFiles + p
\* is the archive a run on day 0 writes for p under <dir>/old_logs/<date>
\* with the defaults (date suffix, ".gz").
Ids == 1..(2 * NumFiles)
SrcDir(p) ==
    IF p \in Paths THEN Append(LogDir, p)
    ELSE Append(Append(Append(LogDir, p - NumFiles), 0), 0)
SrcName(p) ==
    IF p \in Paths THEN <<p % 2>> ELSE <<(p - NumFiles) % 2, 0, 1>>
SrcPath(p) == [dir |-> SrcDir(p), name |-> SrcName(p)]
NoPath == [dir |-> <<>>, name |-> <<>>]
Sources == {SrcPath(p) : p \in Paths}

\* The content a log file has when it is not empty: (p + 1) \div 2 bytes.
FullContent(p) == [i \in 1..((p + 1) \div 2) |-> p]

\* time.Now().Format("20060102") and Format("20060102T15:04:05")
FormatDate(t) == <<t \div SecPerDay>>
FormatFull(t) == <<t \div SecPerDay, t % SecPerDay>>

\* crypto/sha256 + hex.EncodeToString, as a table over the model's passwords
Sha256Hex(pw) ==
    CASE pw = "" -> "e3b0"
      [] pw = "pw1" -> "0b14"
      [] pw = "pw2" -> "6cf6"
      [] pw = "short" -> "f9b0"

\* compressGzip: a gzip member is a header, the deflated data and a trailer
\* holding the length of the data.
compressGzip(data) == <<31>> \o data \o <<Len(data)>>

\* A variant of deriveKey that leaves the password out.
deriveKeySaltOnly(pw, salt) == salt

\* deriveKey: PBKDF2 over the password and the salt.
PwByte(pw) == CASE pw = "" -> 0 [] pw = "pw1" -> 1 [] pw = "pw2" -> 2
deriveKey(pw, salt) == PwByte(pw) * (MaxSalt + 1) + salt

RECURSIVE SumSeq(_)
SumSeq(q) == IF q = <<>> THEN 0 ELSE Head(q) + SumSeq(Tail(q))

\* AES-GCM.  The ciphertext is the plaintext masked by the key stream.  The
\* authentication tag depends on the key, the nonce and every byte of the
\* ciphertext; it is one element above the range of bytes (the 16 bytes of
\* the real tag cannot be forged from ciphertext bytes).
Mask(key, plaintext) ==
    [i \in 1..Len(plaintext) |-> (plaintext[i] + key) % 256]
Unmask(key, body) ==
    [i \in 1..Len(body) |-> (body[i] + 256 - (key % 256)) % 256]
Tag(key, nonce, body) == 1000 + key + nonce + SumSeq(body) + Len(body)

\* gcm.Seal(nil, nonce, plaintext, nil)
Seal(key, nonce, plaintext) ==
    Mask(key, plaintext) \o <<Tag(key, nonce, Mask(key, plaintext))>>

\* gcm.Open(nil, nonce, ciphertext, nil): the plaintext, or an error when the
\* tag does not authenticate the ciphertext under the key and the nonce.
Open(key, nonce, ciphertext) ==
    LET body == SubSeq(ciphertext, 1, Len(ciphertext) - 1)
    IN IF ciphertext[Len(ciphertext)] = Tag(key, nonce, body)
       THEN [err |-> "", out |-> Unmask(key, body)]
       ELSE [err |-> "authentication", out |-> <<>>]

\* encryptData: MAGIC + SALT + NONCE + CIPHERTEXT ("GLRE" is one byte, 71,
\* in the model; the nonce is drawn with the salt).
encryptData(plaintext, pw, salt) ==
    <<71, salt, salt>> \o Seal(deriveKey(pw, salt), salt, plaintext)

\* minLen := len(encryptMagic) + saltSize + nonceSize + 16: one element each
\* for the magic, the salt, the nonce and the tag.
minLen == 4

\* A variant of decryptData that does not look at the magic.
decryptDataAnyMagic(data, pw) ==
    IF Len(data) < minLen
    THEN [err |-> "encrypted data too short", out |-> <<>>]
    ELSE LET r == Open(deriveKey(pw, data[2]), data[3],
                       SubSeq(data, 4, Len(data)))
         IN IF r.err # ""
            THEN [err |-> "decryption failed - incorrect password or corrupted file",
                  out |-> <<>>]
            ELSE r

\* decryptData: the length test, the magic test, then gcm.Open with the key
\* derived from the password and the salt of the envelope.
decryptData(data, pw) ==
    IF Len(data) < minLen
    THEN [err |-> "encrypted data too short", out |-> <<>>]
    ELSE IF data[1] # 71
    THEN [err |-> "invalid encrypted file format", out |-> <<>>]
    ELSE LET r == Open(deriveKey(pw, data[2]), data[3],
                       SubSeq(data, 4, Len(data)))
         IN IF r.err # ""
            THEN [err |-> "decryption failed - incorrect password or corrupted file",
                  out |-> <<>>]
            ELSE r

\* decompressGzip: gzip.NewReader rejects a wrong header, io.ReadAll a
\* trailer that does not fit the data.
decompressGzip(data) ==
    IF Len(data) >= 2 /\ data[1] = 31 /\ data[Len(data)] = Len(data) - 2
    THEN [err |-> "", out |-> SubSeq(data, 2, Len(data) - 1)]
    ELSE [err |-> "gzip", out |-> <<>>]

VARIABLES
    now,             \* the clock, in seconds
    files,           \* path -> content, for every file that exists
    dirs,            \* the backup directories that exist
    opts,            \* config files, command line and environment of the runs
    cfg,             \* the Config parseFlags returned to the current run
    run,             \* number of runs started
    mainPc,          \* where main is: "idle", "rotate", "completed", "exited"
    exitCode,        \* exit code of the last finished run, -1 while running
    worklist,        \* logFiles, the result of findLogFiles
    nextIdx,         \* position of the for loop over logFiles
    wpc,             \* per candidate: position inside rotateLogFile
    loc,             \* per candidate: locals of rotateLogFile
    sem,             \* number of tokens in the sem channel
    wg,              \* the WaitGroup counter
    cachedPassword,  \* the package variable cachedPassword
    passwordMu,      \* holder of passwordMu, 0 when free
    outcome,         \* per candidate: the outcome reported in this run
    reports,         \* per candidate: number of outcomes reported in this run
    touched,         \* paths the program created, wrote, truncated or chmod-ed in this run
    archLog,         \* every successful archive write: source, suffix, target, run,
                     \* and the password it was encrypted with ("" when not encrypted)
    faults,          \* failures injected so far
    pwEvals,         \* evaluations of the source chain in this run
    pwFirst,         \* result of the first getEncryptionPassword call of this run
    lastCall,        \* the last call of getEncryptionPassword: cache before it,
                     \* prompt input, result, sources consulted
    snap,            \* what the previous run left behind
    bench,           \* one use of encryptData and decryptData on their own
    setup,           \* the --pass-gen and --pass-reset flows and the hash they store
    reader,          \* one process started with --read
    lim              \* limits of the scenario: runs, last clock value, failures

vars == <<now, files, dirs, opts, cfg, run, mainPc, exitCode, worklist, nextIdx,
          wpc, loc, sem, wg, cachedPassword, passwordMu, outcome, reports,
          touched, archLog, faults, pwEvals, pwFirst, lastCall, snap, bench, setup,
          reader, lim>>


(***************************************************************************)
(* Helpers over the file system.                                           *)
(***************************************************************************)
Exists(path) == path \in DOMAIN files
Put(fs, path, data) == (path :> data) @@ fs
Remove(fs, path) == [q \in (DOMAIN fs) \ {path} |-> fs[q]]
DirEntry(d) == [dir |-> d, name |-> <<>>]

\* Outcomes rotateLogFile reports for one file.
Skips == {"missing", "empty", "already", "dryrun"}
Errors == {"err_mkdir", "err_read", "err_compress", "err_password",
           "err_encrypt", "err_write", "err_truncate"}
Outcomes == Skips \cup Errors \cup {"rotated"}

\* Failures of rotateLogFile before the archive is on disk.
ErrorsBeforeArchive ==
    {"err_mkdir", "err_read", "err_compress", "err_password", "err_encrypt",
     "err_write"}

\* Positions of a worker inside rotateLogFile and the goroutine around it.
Running == {"stat", "read", "password", "prompt", "write", "truncate"}

NoLocals == [arch |-> NoPath, data |-> <<>>, pw |-> ""]
NoPrompt == [err |-> TRUE, pw |-> ""]
NoCall == [cached |-> "", pr |-> NoPrompt, ret |-> "", trail |-> <<>>]

(***************************************************************************)
(* parseFlags and main, up to the call of rotateSequential/rotateParallel. *)
(***************************************************************************)
\* time.Now(): the clock does not run backwards.  The variable now holds the
\* value of the last reading; the time that passes between two readings is
\* chosen at the later one.
ClockReads == now..lim.clock

\* parseFlags: the date suffix is taken from the clock once, at start-up.
DateSuffixOf(o, t) == IF o.FullTime THEN FormatFull(t) ELSE FormatDate(t)

parseFlags(o, t) ==
    [DryRun |-> o.DryRun,
     Encrypt |-> o.Encrypt,
     OldLogsDir |-> o.OldLogsDir,
     ParallelJobs |-> o.ParallelJobs,
     Parallel |-> o.ParallelJobs > 1,
     EncryptPassword |-> o.EncryptPassword,
     EncryptPassHash |-> o.EncryptPassHash,
     Pattern |-> o.Pattern,
     ExcludeFile |-> o.ExcludeFile,
     CustomPath |-> o.CustomPath,
     DateSuffix |-> DateSuffixOf(o, t)]

\* main: "--encrypt requires password to be configured"
EncryptMisconfigured(c) ==
    c.Encrypt /\ c.EncryptPassword = "" /\ c.EncryptPassHash = ""

\* main: "Custom log path does not exist" (os.Stat of cfg.LogDir fails).
CustomPathMissing(c, o) == c.CustomPath /\ ~o.targetExists

\* A variant of the test below that lets a missing file pass.
ExcludeFileNeverMissing(c, o) == FALSE

\* loadExcludePatterns: os.Open(excludeFile) fails and the process exits.
ExcludeFileMissing(c, o) == c.ExcludeFile # <<>> /\ ~o.excludeExists

\* loadExcludePatterns: no patterns without a file, its lines otherwise.
loadExcludePatterns(c, o) ==
    IF c.ExcludeFile = <<>> THEN {} ELSE o.excludePatterns

\* filepath.Match.  A pattern is the tokens of its directory components and
\* the token of its last component; a pattern without "/" has no directory
\* tokens.  "*" does not match across "/": the numbers of components agree.
\* Directory tokens: -1 is "*", any other number is a literal.  Name tokens:
\* <<-1>> is "*", <<-2>> is "*.log" (in the model the names of one element
\* end in ".log"), any other tuple is a literal name.
AnyName == <<-1>>
AnyLog == <<-2>>
MatchName(tok, name) ==
    \/ tok = AnyName
    \/ tok = AnyLog /\ Len(name) = 1
    \/ tok = name
Match(pat, dir, name) ==
    /\ Len(pat.dir) = Len(dir)
    /\ \A i \in 1..Len(dir) : pat.dir[i] = -1 \/ pat.dir[i] = dir[i]
    /\ MatchName(pat.name, name)

\* filepath.Match(pattern, path) and filepath.Match(pattern, d.Name())
MatchPath(pat, q) == Match(pat, q.dir, q.name)
MatchBase(pat, q) == Match(pat, <<>>, q.name)

\* A variant of the exclusion test that looks at the base name only.
ExcludedByNameOnly(excl, q) == \E e \in excl : MatchBase(e, q)

\* The loop over excludePatterns in the callback of filepath.WalkDir.
Excluded(excl, q) == \E e \in excl : MatchPath(e, q) \/ MatchBase(e, q)

\* filepath.WalkDir(logDir, ...): the files below the target directory.
\* cfg.LogDir names the directory of the tree, LogDir, or a directory that
\* does not exist (the walk then reports an error for the root and finds
\* nothing).
Walked(fs, o) ==
    IF o.targetExists
    THEN {q \in DOMAIN fs :
            Len(q.dir) >= Len(LogDir) /\ SubSeq(q.dir, 1, Len(LogDir)) = LogDir}
    ELSE {}

\* The files the callback appends: the base name matches cfg.Pattern and no
\* exclusion pattern matches the path or the base name.
Found(fs, c, o) ==
    {q \in Walked(fs, o) :
        MatchBase(c.Pattern, q) /\ ~Excluded(loadExcludePatterns(c, o), q)}

\* findLogFiles: the log files found, sorted ascending by size
\* (sort.Slice is not stable: files of equal size come in any order).
Candidates(fs, c, o) == {p \in Ids : SrcPath(p) \in Found(fs, c, o)}
SizeOf(fs, p) == Len(fs[SrcPath(p)])
\* A variant of the order below that accepts every order.
AnyOrder(fs, w) == TRUE

IsSortedBySize(fs, w) ==
    \A i \in 1..Len(w), j \in 1..Len(w) :
        i < j => ~(SizeOf(fs, w[j]) < SizeOf(fs, w[i]))
findLogFiles(fs, cf, o) ==
    LET c == Candidates(fs, cf, o)
        n == Cardinality(c)
    IN {w \in [1..n -> c] :
            /\ \A i \in 1..n, j \in 1..n : i # j => w[i] # w[j]
            /\ IsSortedBySize(fs, w)}

NoSnap == [valid |-> FALSE, files |-> <<>>, dirs |-> {}, suffix |-> <<>>, clean |-> TRUE]

\* What a finished run leaves for the comparison with the next one.
SnapOf ==
    [valid |-> run >= 1 /\ mainPc = "completed",
     files |-> files, dirs |-> dirs, suffix |-> cfg.DateSuffix,
     clean |-> \A p \in Ids : outcome[p] \notin ErrorsBeforeArchive]

\* Start of a process: parseFlags, the validation in main (the custom path,
\* the encryption settings), loadExcludePatterns, findLogFiles.
StartRun ==
    /\ mainPc \in {"idle", "completed", "exited"}
    /\ run < lim.runs
    /\ run' = run + 1
    /\ now' \in ClockReads
    /\ cfg' = parseFlags(opts, now')
    /\ snap' = SnapOf
    /\ cachedPassword' = ""
    /\ passwordMu' = 0
    /\ outcome' = [p \in Ids |-> "none"]
    /\ reports' = [p \in Ids |-> 0]
    /\ touched' = {}
    /\ pwEvals' = 0
    /\ pwFirst' = "none"
    /\ lastCall' = NoCall
    /\ wpc' = [p \in Ids |-> "idle"]
    /\ loc' = [p \in Ids |-> NoLocals]
    /\ sem' = 0
    /\ wg' = 0
    /\ nextIdx' = 1
    /\ IF \/ CustomPathMissing(cfg', opts)
          \/ EncryptMisconfigured(cfg')
          \/ ExcludeFileMissing(cfg', opts)
       THEN /\ mainPc' = "exited"
            /\ exitCode' = 1
            /\ worklist' = <<>>
       ELSE \E w \in findLogFiles(files, cfg', opts) :
            /\ worklist' = w
            /\ IF Len(w) = 0
               THEN mainPc' = "exited" /\ exitCode' = 0
               ELSE mainPc' = "rotate" /\ exitCode' = -1
    /\ UNCHANGED <<bench, setup, reader, files, dirs, opts, lim, archLog, faults>>


(***************************************************************************)
(* rotateLogFile.  A candidate is identified by the number of its log file. *)
(* The calls up to os.MkdirAll are one action: none of them reads what      *)
(* another worker writes after it, except the archive path's existence.    *)
(***************************************************************************)
\* The archive directory and file of candidate p, computed at time t.
BackupRoot(c, p) ==
    IF c.OldLogsDir # <<>> THEN c.OldLogsDir ELSE Append(SrcDir(p), 0)
BackupDir(c, p, t) == BackupRoot(c, p) \o FormatDate(t)
ArchiveExt(c) == IF c.Encrypt THEN <<2>> ELSE <<1>>
ArchivedFile(c, p, t) ==
    [dir |-> BackupDir(c, p, t),
     name |-> SrcName(p) \o c.DateSuffix \o ArchiveExt(c)]

\* Where the caller of rotateLogFile continues after it returns: the loop of
\* rotateSequential, or the deferred calls of the goroutine of rotateParallel.
AfterReturn(c) == IF c.Parallel THEN "ret" ELSE "exited"

\* rotateLogFile returns, having reported outcome oc for p.
Return(p, oc) ==
    /\ wpc' = [wpc EXCEPT ![p] = AfterReturn(cfg)]
    /\ outcome' = [outcome EXCEPT ![p] = oc]
    /\ reports' = [reports EXCEPT ![p] = @ + 1]
    /\ loc' = [loc EXCEPT ![p] = NoLocals]

Goto(p, pc) ==
    /\ wpc' = [wpc EXCEPT ![p] = pc]
    /\ UNCHANGED <<outcome, reports>>

\* An injected failure uses up the budget.
CanFail == faults < lim.faults

\* Variants of the two tests below that take no notice of what they test.
AlreadyRotatedNever(arch) == FALSE
DryRunIgnored(c) == FALSE

\* A variant that lets the dry-run report come before the existence test.
AlreadyRotatedUnlessDryRun(arch) == Exists(arch) /\ ~cfg.DryRun

\* if _, err := os.Stat(archivedFile); err == nil { ... return }
AlreadyRotated(arch) == Exists(arch)

\* if cfg.DryRun { ... return }
DryRunStops(c) == c.DryRun

\* The head of rotateLogFile: os.Stat(logFile) skips missing and empty
\* files; the archive path is computed (with a fresh time.Now() for the dated
\* directory); os.Stat(archivedFile) is the already-rotated check; the dry-run
\* report follows it; then os.MkdirAll(backupDir, 0755).
StatAndCheck(p) ==
    /\ wpc[p] = "stat"
    /\ IF ~Exists(SrcPath(p))
       THEN Return(p, "missing") /\ UNCHANGED <<now, dirs, touched, faults>>
       ELSE IF Len(files[SrcPath(p)]) = 0
       THEN Return(p, "empty") /\ UNCHANGED <<now, dirs, touched, faults>>
       ELSE
        /\ now' \in ClockReads
        /\ LET arch == ArchivedFile(cfg, p, now')
           IN IF AlreadyRotated(arch)
              THEN Return(p, "already") /\ UNCHANGED <<dirs, touched, faults>>
              ELSE IF DryRunStops(cfg)
              THEN Return(p, "dryrun") /\ UNCHANGED <<dirs, touched, faults>>
              ELSE \/ /\ dirs' = dirs \cup {arch.dir}
                      /\ touched' = IF arch.dir \in dirs THEN touched
                                    ELSE touched \cup {DirEntry(arch.dir)}
                      /\ Goto(p, "read")
                      /\ loc' = [loc EXCEPT ![p].arch = arch]
                      /\ UNCHANGED faults
                   \/ /\ CanFail
                      /\ faults' = faults + 1
                      /\ Return(p, "err_mkdir")
                      /\ UNCHANGED <<dirs, touched>>
    /\ UNCHANGED <<bench, setup, reader, files, opts, lim, cfg, run, mainPc, exitCode, worklist,
                   nextIdx, sem, wg, cachedPassword, passwordMu,
                   archLog, pwEvals, pwFirst, lastCall, snap>>

\* os.ReadFile(logFile), then compressGzip(data)
ReadAndCompress(p) ==
    /\ wpc[p] = "read"
    /\ \/ /\ Exists(SrcPath(p))
          /\ loc' = [loc EXCEPT ![p].data = compressGzip(files[SrcPath(p)])]
          /\ Goto(p, IF cfg.Encrypt THEN "password" ELSE "write")
          /\ UNCHANGED faults
       \/ /\ ~Exists(SrcPath(p))
          /\ Return(p, "err_read")
          /\ UNCHANGED faults
       \/ /\ CanFail
          /\ faults' = faults + 1
          /\ \E oc \in {"err_read", "err_compress"} : Return(p, oc)
    /\ UNCHANGED <<bench, setup, reader, now, files, dirs, opts, lim, cfg, run, mainPc, exitCode, worklist,
                   nextIdx, sem, wg, cachedPassword, passwordMu, touched,
                   archLog, pwEvals, pwFirst, lastCall, snap>>


(***************************************************************************)
(* getEncryptionPassword.                                                  *)
(***************************************************************************)
\* What readPassword may return: an error, or the line that was typed.
PromptResults ==
    {[err |-> TRUE, pw |-> ""]}
        \cup {[err |-> FALSE, pw |-> w] : w \in Passwords \cup {""}}

\* hex(sha256(pw)) == cfg.EncryptPassHash
HashMatches(c, pw) == Sha256Hex(pw) = c.EncryptPassHash

\* A variant of the test below that does not look at the hash.
SourceAcceptedUnverified(c, pw) == pw # ""

\* The test applied to the credentials-file and the environment password:
\* non-empty, and verified against the hash when one is configured.
SourceAccepted(c, pw) ==
    pw # "" /\ (c.EncryptPassHash = "" \/ HashMatches(c, pw))

\* The prompt is reached only with a hash configured, and must verify.
PromptAccepted(c, pr) == ~pr.err /\ HashMatches(c, pr.pw)

\* A variant in which a credentials-file or environment password that does
\* not verify ends the resolution.
getEncryptionPasswordFailFast(cached, c, cred, env, pr) ==
    IF cached # ""
    THEN [ret |-> cached, cache |-> cached, trail |-> <<"cache">>]
    ELSE IF c.EncryptPassword # ""
    THEN [ret |-> c.EncryptPassword, cache |-> c.EncryptPassword,
          trail |-> <<"cache", "config">>]
    ELSE IF cred # ""
    THEN [ret |-> IF SourceAccepted(c, cred) THEN cred ELSE "",
          cache |-> IF SourceAccepted(c, cred) THEN cred ELSE cached,
          trail |-> <<"cache", "config", "credentials">>]
    ELSE IF env # ""
    THEN [ret |-> IF SourceAccepted(c, env) THEN env ELSE "",
          cache |-> IF SourceAccepted(c, env) THEN env ELSE cached,
          trail |-> <<"cache", "config", "credentials", "env">>]
    ELSE IF c.EncryptPassHash # ""
    THEN IF PromptAccepted(c, pr)
         THEN [ret |-> pr.pw, cache |-> pr.pw,
               trail |-> <<"cache", "config", "credentials", "env", "prompt">>]
         ELSE [ret |-> "", cache |-> cached,
               trail |-> <<"cache", "config", "credentials", "env", "prompt">>]
    ELSE [ret |-> "", cache |-> cached,
          trail |-> <<"cache", "config", "credentials", "env">>]

\* A variant that consults the environment before the credentials file.
getEncryptionPasswordEnvFirst(cached, c, cred, env, pr) ==
    IF cached # ""
    THEN [ret |-> cached, cache |-> cached, trail |-> <<"cache">>]
    ELSE IF c.EncryptPassword # ""
    THEN [ret |-> c.EncryptPassword, cache |-> c.EncryptPassword,
          trail |-> <<"cache", "config">>]
    ELSE IF SourceAccepted(c, env)
    THEN [ret |-> env, cache |-> env,
          trail |-> <<"cache", "config", "credentials">>]
    ELSE IF SourceAccepted(c, cred)
    THEN [ret |-> cred, cache |-> cred,
          trail |-> <<"cache", "config", "credentials", "env">>]
    ELSE IF c.EncryptPassHash # ""
    THEN IF PromptAccepted(c, pr)
         THEN [ret |-> pr.pw, cache |-> pr.pw,
               trail |-> <<"cache", "config", "credentials", "env", "prompt">>]
         ELSE [ret |-> "", cache |-> cached,
               trail |-> <<"cache", "config", "credentials", "env", "prompt">>]
    ELSE [ret |-> "", cache |-> cached,
          trail |-> <<"cache", "config", "credentials", "env">>]

\* The body of getEncryptionPassword between Lock and Unlock: the value it
\* returns, the new value of cachedPassword, and the sources it consulted.
getEncryptionPassword(cached, c, cred, env, pr) ==
    IF cached # ""
    THEN [ret |-> cached, cache |-> cached, trail |-> <<"cache">>]
    ELSE IF c.EncryptPassword # ""
    THEN [ret |-> c.EncryptPassword, cache |-> c.EncryptPassword,
          trail |-> <<"cache", "config">>]
    ELSE IF SourceAccepted(c, cred)
    THEN [ret |-> cred, cache |-> cred,
          trail |-> <<"cache", "config", "credentials">>]
    ELSE IF SourceAccepted(c, env)
    THEN [ret |-> env, cache |-> env,
          trail |-> <<"cache", "config", "credentials", "env">>]
    ELSE IF c.EncryptPassHash # ""
    THEN IF PromptAccepted(c, pr)
         THEN [ret |-> pr.pw, cache |-> pr.pw,
               trail |-> <<"cache", "config", "credentials", "env", "prompt">>]
         ELSE [ret |-> "", cache |-> cached,
               trail |-> <<"cache", "config", "credentials", "env", "prompt">>]
    ELSE [ret |-> "", cache |-> cached,
          trail |-> <<"cache", "config", "credentials", "env">>]

\* The sources before the prompt decide the call: the cache, the plaintext
\* password or an accepted credentials-file or environment password is
\* there, or no hash is configured and the prompt is not reached.
NeedsPrompt(cached, c, cred, env) ==
    Len(getEncryptionPassword(cached, c, cred, env, NoPrompt).trail) = 5

\* A variant that goes on to write the archive without a password.
OnNoPasswordIgnored(p) == Goto(p, "write") /\ UNCHANGED loc

\* if password == "" { "Error: No encryption password configured"; return }
OnNoPassword(p) == Return(p, "err_password")

\* A variant that leaves the cache empty when the call returns.
CacheDropped(r) == ""

\* cachedPassword when getEncryptionPassword returns: the assignments
\* cachedPassword = ... before each return, or the value it had.
CacheOnReturn(r) == r.cache

\* getEncryptionPassword has returned r to rotateLogFile: the cache is
\* updated, passwordMu unlocked, an empty password ends the rotation of the
\* file, and encryptData runs on the compressed data otherwise.
UsePassword(p, pr, r) ==
    /\ cachedPassword' = CacheOnReturn(r)
    /\ passwordMu' = 0
    /\ lastCall' = [cached |-> cachedPassword, pr |-> pr, ret |-> r.ret,
                    trail |-> r.trail]
    /\ pwFirst' = IF pwFirst = "none" THEN r.ret ELSE pwFirst
    /\ pwEvals' = IF Len(r.trail) > 1 THEN pwEvals + 1 ELSE pwEvals
    /\ IF r.ret = ""
       THEN OnNoPassword(p) /\ UNCHANGED faults
       ELSE \/ /\ \E salt \in Salts :
                   loc' = [loc EXCEPT ![p].data = encryptData(@, r.ret, salt),
                                      ![p].pw = r.ret]
               /\ Goto(p, "write")
               /\ UNCHANGED faults
            \/ /\ CanFail
               /\ faults' = faults + 1
               /\ Return(p, "err_encrypt")

\* getEncryptionPassword is called: passwordMu.Lock(), then the sources in
\* turn.  When the prompt is reached the goroutine waits in readPassword,
\* holding passwordMu.
GetPassword(p) ==
    /\ wpc[p] = "password"
    /\ passwordMu = 0
    /\ IF NeedsPrompt(cachedPassword, cfg, opts.credPass, opts.envPass)
       THEN /\ passwordMu' = p
            /\ Goto(p, "prompt")
            /\ UNCHANGED <<loc, cachedPassword, lastCall, pwFirst, pwEvals, faults>>
       ELSE UsePassword(p, NoPrompt,
                        getEncryptionPassword(cachedPassword, cfg,
                               opts.credPass, opts.envPass, NoPrompt))
    /\ UNCHANGED <<bench, setup, reader, now, files, dirs, opts, lim, cfg, run, mainPc, exitCode, worklist,
                   nextIdx, sem, wg, touched, archLog, snap>>

\* readPassword returns, and getEncryptionPassword with it.
PromptReturns(p) ==
    /\ wpc[p] = "prompt"
    /\ passwordMu = p
    /\ \E pr \in PromptResults :
        UsePassword(p, pr, getEncryptionPassword(cachedPassword, cfg,
                                  opts.credPass, opts.envPass, pr))
    /\ UNCHANGED <<bench, setup, reader, now, files, dirs, opts, lim, cfg, run, mainPc, exitCode, worklist,
                   nextIdx, sem, wg, touched, archLog, snap>>

\* A variant that drops the error of os.WriteFile and goes on to truncate.
OnWriteErrorIgnored(p) == Goto(p, "truncate") /\ UNCHANGED loc

\* if err := os.WriteFile(...); err != nil { ... return }
OnWriteError(p) == Return(p, "err_write")

\* os.WriteFile(archivedFile, finalData, mode): it may fail before the file
\* is created, or after it was created and truncated.
WriteArchive(p) ==
    /\ wpc[p] = "write"
    /\ \/ /\ files' = Put(files, loc[p].arch, loc[p].data)
          /\ touched' = touched \cup {loc[p].arch}
          /\ archLog' = archLog \cup
                {[src |-> p, suffix |-> cfg.DateSuffix, arch |-> loc[p].arch,
                  run |-> run, pw |-> loc[p].pw]}
          /\ Goto(p, "truncate")
          /\ UNCHANGED <<loc, faults>>
       \/ /\ CanFail
          /\ faults' = faults + 1
          /\ \/ UNCHANGED <<files, touched>>
             \/ /\ files' = Put(files, loc[p].arch, <<>>)
                /\ touched' = touched \cup {loc[p].arch}
          /\ OnWriteError(p)
          /\ UNCHANGED archLog
    /\ UNCHANGED <<bench, setup, reader, now, dirs, opts, lim, cfg, run, mainPc, exitCode, worklist,
                   nextIdx, sem, wg, cachedPassword, passwordMu,
                   pwEvals, pwFirst, lastCall, snap>>

\* os.Truncate(logFile, 0), then the best-effort Chown and Chmod of the
\* archive and the report.
TruncateSource(p) ==
    /\ wpc[p] = "truncate"
    /\ \/ /\ Exists(SrcPath(p))
          /\ files' = Put(files, SrcPath(p), <<>>)
          /\ touched' = touched \cup {SrcPath(p), loc[p].arch}
          /\ Return(p, "rotated")
          /\ UNCHANGED faults
       \/ /\ ~Exists(SrcPath(p))
          /\ Return(p, "err_truncate")
          /\ UNCHANGED <<files, touched, faults>>
       \/ /\ CanFail
          /\ faults' = faults + 1
          /\ Return(p, "err_truncate")
          /\ UNCHANGED <<files, touched>>
    /\ UNCHANGED <<bench, setup, reader, now, dirs, opts, lim, cfg, run, mainPc, exitCode, worklist,
                   nextIdx, sem, wg, cachedPassword, passwordMu,
                   archLog, pwEvals, pwFirst, lastCall, snap>>

(***************************************************************************)
(* rotateSequential and rotateParallel.                                    *)
(***************************************************************************)
NoneRunning == \A q \in Ids : wpc[q] \in {"idle", "exited"}

\* A variant of the loop that gives up at the first file that failed.
LoopFinishedOrFailed ==
    nextIdx > Len(worklist) \/ \E p \in Paths : outcome[p] \in Errors

\* for _, f := range files: the loop ends after the last candidate.
LoopFinished == nextIdx > Len(worklist)

\* rotateSequential: the loop calls rotateLogFile for the next file.
SeqCall ==
    /\ mainPc = "rotate"
    /\ ~cfg.Parallel
    /\ ~LoopFinished
    /\ NoneRunning
    /\ wpc' = [wpc EXCEPT ![worklist[nextIdx]] = "stat"]
    /\ nextIdx' = nextIdx + 1
    /\ UNCHANGED <<bench, setup, reader, now, files, dirs, opts, lim, cfg, run, mainPc, exitCode, worklist,
                   loc, sem, wg, cachedPassword, passwordMu, outcome, reports,
                   touched, archLog, faults, pwEvals, pwFirst, lastCall, snap>>

\* rotateSequential returns; main logs "Rotation completed" and returns.
SeqDone ==
    /\ mainPc = "rotate"
    /\ ~cfg.Parallel
    /\ LoopFinished
    /\ NoneRunning
    /\ mainPc' = "completed"
    /\ exitCode' = 0
    /\ UNCHANGED <<bench, setup, reader, now, files, dirs, opts, lim, cfg, run, worklist, nextIdx, wpc,
                   loc, sem, wg, cachedPassword, passwordMu, outcome, reports,
                   touched, archLog, faults, pwEvals, pwFirst, lastCall, snap>>

\* A variant with a channel that never fills.
SemAlwaysRoom(c) == TRUE

\* sem <- struct{}{} blocks while the channel holds cfg.ParallelJobs tokens.
\* A variant for a channel made without a buffer: a send finds no room.
SemUnbuffered(c) == sem < 0

SemHasRoom(c) == sem < c.ParallelJobs

\* rotateParallel: wg.Add(1), the send on sem, and the go statement.
ParSpawn ==
    /\ mainPc = "rotate"
    /\ cfg.Parallel
    /\ ~LoopFinished
    /\ SemHasRoom(cfg)
    /\ wg' = wg + 1
    /\ sem' = sem + 1
    /\ wpc' = [wpc EXCEPT ![worklist[nextIdx]] = "stat"]
    /\ nextIdx' = nextIdx + 1
    /\ UNCHANGED <<bench, setup, reader, now, files, dirs, opts, lim, cfg, run, mainPc, exitCode, worklist,
                   loc, cachedPassword, passwordMu, outcome, reports,
                   touched, archLog, faults, pwEvals, pwFirst, lastCall, snap>>

\* The goroutine's deferred calls: func() { <-sem }() and then wg.Done().
GoroutineExit(p) ==
    /\ wpc[p] = "ret"
    /\ sem' = sem - 1
    /\ wg' = wg - 1
    /\ wpc' = [wpc EXCEPT ![p] = "exited"]
    /\ UNCHANGED <<bench, setup, reader, now, files, dirs, opts, lim, cfg, run, mainPc, exitCode, worklist,
                   nextIdx, loc, cachedPassword, passwordMu, outcome,
                   reports, touched, archLog, faults, pwEvals, pwFirst, lastCall,
                   snap>>

\* A variant that does not wait.
WaitReturnsAtOnce == TRUE

\* wg.Wait() returns when the counter is zero.
WaitReturns == wg = 0

\* rotateParallel returns; main logs "Rotation completed" and returns.
ParDone ==
    /\ mainPc = "rotate"
    /\ cfg.Parallel
    /\ LoopFinished
    /\ WaitReturns
    /\ mainPc' = "completed"
    /\ exitCode' = 0
    /\ UNCHANGED <<bench, setup, reader, now, files, dirs, opts, lim, cfg, run, worklist, nextIdx, wpc,
                   loc, sem, wg, cachedPassword, passwordMu, outcome, reports,
                   touched, archLog, faults, pwEvals, pwFirst, lastCall, snap>>

(***************************************************************************)
(* The environment: another process removes a log file during a run.       *)
(***************************************************************************)
ExtRemove(p) ==
    /\ mainPc = "rotate"
    /\ CanFail
    /\ Exists(SrcPath(p))
    /\ faults' = faults + 1
    /\ files' = Remove(files, SrcPath(p))
    /\ UNCHANGED <<bench, setup, reader, now, dirs, opts, lim, cfg, run, mainPc, exitCode, worklist,
                   nextIdx, wpc, loc, sem, wg, cachedPassword, passwordMu,
                   outcome, reports, touched, archLog, pwEvals, pwFirst,
                   lastCall, snap>>

(***************************************************************************)
(* The environment: the application that owns a log file appends a line to *)
(* it during a run (it keeps the file open across the truncation).         *)
(***************************************************************************)
ExtAppend(p) ==
    /\ mainPc = "rotate"
    /\ Exists(SrcPath(p))
    /\ Len(files[SrcPath(p)]) < MaxLogLen
    /\ files' = Put(files, SrcPath(p), Append(files[SrcPath(p)], 10))
    /\ UNCHANGED <<bench, setup, reader, now, dirs, opts, lim, cfg, run, mainPc,
                   exitCode, worklist, nextIdx, wpc, loc, sem, wg,
                   cachedPassword, passwordMu, outcome, reports, touched,
                   archLog, faults, pwEvals, pwFirst, lastCall, snap>>

(***************************************************************************)
(* encryptData and decryptData on their own: a plaintext is encrypted      *)
(* under a password, the envelope may be damaged on the way (cut short by  *)
(* one element, or one element changed), and is decrypted under any        *)
(* password.                                                               *)
(***************************************************************************)
NoResult == [err |-> "", out |-> <<>>]
NoBench == [pc |-> "off", plain |-> <<>>, pw |-> "", data |-> <<>>,
            damage |-> "none", tried |-> "", out |-> NoResult]

CallEncrypt ==
    /\ bench.pc = "input"
    /\ \E salt \in Salts :
          bench' = [bench EXCEPT !.pc = "sealed",
                      !.data = encryptData(bench.plain, bench.pw, salt)]
    /\ UNCHANGED <<setup, reader, now, files, dirs, opts, cfg, run, mainPc, exitCode, worklist,
                   nextIdx, wpc, loc, sem, wg, cachedPassword, passwordMu,
                   outcome, reports, touched, archLog, faults, pwEvals,
                   pwFirst, lastCall, snap, lim>>

\* Which part of the envelope element i belongs to.
PartAt(data, i) ==
    IF i = 1 THEN "magic"
    ELSE IF i = 2 THEN "salt"
    ELSE IF i = 3 THEN "nonce"
    ELSE IF i = Len(data) THEN "tag"
    ELSE "ciphertext"

Bump(v) == IF v >= 256 THEN v + 1 ELSE (v + 1) % 256

Damage ==
    /\ bench.pc = "sealed"
    /\ bench.damage = "none"
    /\ \/ bench' = [bench EXCEPT !.damage = "cut",
                        !.data = SubSeq(@, 1, Len(@) - 1)]
       \/ \E i \in 1..Len(bench.data) :
             bench' = [bench EXCEPT !.damage = PartAt(bench.data, i),
                          !.data = [@ EXCEPT ![i] = Bump(@)]]
    /\ UNCHANGED <<setup, reader, now, files, dirs, opts, cfg, run, mainPc, exitCode, worklist,
                   nextIdx, wpc, loc, sem, wg, cachedPassword, passwordMu,
                   outcome, reports, touched, archLog, faults, pwEvals,
                   pwFirst, lastCall, snap, lim>>

CallDecrypt ==
    /\ bench.pc = "sealed"
    /\ \E w \in Passwords \cup {""} :
          bench' = [bench EXCEPT !.pc = "opened", !.tried = w,
                      !.out = decryptData(bench.data, w)]
    /\ UNCHANGED <<setup, reader, now, files, dirs, opts, cfg, run, mainPc, exitCode, worklist,
                   nextIdx, wpc, loc, sem, wg, cachedPassword, passwordMu,
                   outcome, reports, touched, archLog, faults, pwEvals,
                   pwFirst, lastCall, snap, lim>>

(***************************************************************************)
(* --pass-gen and --pass-reset: generatePassword and resetPassword.  The   *)
(* configuration files may define ENCRYPT_PASSWORD_HASH in three places:   *)
(* in the files loadConfigFiles reads before encryption.conf (global.conf  *)
(* and the drop-ins sorted before it), in encryption.conf, and in the      *)
(* drop-ins sorted after it.                                               *)
(***************************************************************************)
Absent == "absent"
NoConf == [early |-> Absent, enc |-> Absent, late |-> Absent]

\* loadConfigFiles: a later file overwrites the key of an earlier one.
loadConfigFiles(conf) ==
    IF conf.late # Absent THEN conf.late
    ELSE IF conf.enc # Absent THEN conf.enc
    ELSE conf.early

\* getConfigDefault: a key that is missing or empty gives the default.
getConfigDefault(val, defaultVal) ==
    IF val # Absent /\ val # "" THEN val ELSE defaultVal

\* getConfigDefault(loadConfigFiles(), "ENCRYPT_PASSWORD_HASH", "")
ConfiguredHash(conf) == getConfigDefault(loadConfigFiles(conf), "")

\* len(password); the passwords of the model stand for long ones, "short"
\* for one of five characters.
PasswordLength(pw) ==
    CASE pw = "" -> 0
      [] pw = "short" -> 5
      [] pw \in Passwords -> 24

\* if len(password) < 8 { "Password must be at least 8 characters" }
MinPasswordLength == 8

\* generateRandomPassword(24)
GeneratedPasswords == {pw \in Passwords : PasswordLength(pw) = 24}

\* What readPassword may return to the two flows.
TypedResults ==
    {[err |-> TRUE, pw |-> ""]}
        \cup {[err |-> FALSE, pw |-> w] : w \in Passwords \cup {"", "short"}}

NoSetup == [pc |-> "off", flow |-> "none", count |-> 0, conf |-> NoConf,
            start |-> [conf |-> NoConf, cred |-> ""],
            prev |-> [flow |-> "none", changed |-> FALSE],
            existing |-> "", current |-> "", new |-> "", exit |-> -1]

\* A process starts with --pass-gen or --pass-reset.
BeginFlow(flow, hash) ==
    [setup EXCEPT !.flow = flow, !.count = @ + 1, !.existing = hash,
                  !.start = [conf |-> setup.conf, cred |-> opts.credPass],
                  !.prev = [flow |-> setup.flow,
                            changed |-> setup.conf # setup.start.conf],
                  !.current = "", !.new = "", !.exit = -1]

\* The process of the flow ends with exit code code.
EndFlow(st, code) == [st EXCEPT !.pc = "done", !.exit = code]

\* A variant of the test below that never finds a hash.
AlreadyConfiguredNever(hash) == FALSE

\* generatePassword: if hash := getConfigDefault(...); hash != "" { return }
AlreadyConfigured(hash) == hash # ""

\* generatePassword, up to the menu: "A password is already configured."
PassGenStart ==
    /\ setup.pc \in {"idle", "done"}
    /\ setup.count < MaxSetups
    /\ LET hash == ConfiguredHash(setup.conf)
           st == BeginFlow("gen", hash)
       IN setup' = IF AlreadyConfigured(hash)
                   THEN EndFlow(st, 0)
                   ELSE [st EXCEPT !.pc = "choose"]
    /\ UNCHANGED <<bench, reader, now, files, dirs, opts, cfg, run, mainPc, exitCode,
                   worklist, nextIdx, wpc, loc, sem, wg, cachedPassword,
                   passwordMu, outcome, reports, touched, archLog, faults,
                   pwEvals, pwFirst, lastCall, snap, lim>>

\* resetPassword, up to the menu: without a hash it refers to --pass-gen;
\* otherwise the current password is read and must hash to the hash.
PassResetStart ==
    /\ setup.pc \in {"idle", "done"}
    /\ setup.count < MaxSetups
    /\ LET existingHash == ConfiguredHash(setup.conf)
           st == BeginFlow("reset", existingHash)
       IN IF existingHash = ""
          THEN setup' = EndFlow(st, 0)
          ELSE \E cur \in TypedResults :
                 setup' =
                    IF cur.err
                    THEN EndFlow(st, 1)
                    ELSE IF Sha256Hex(cur.pw) # existingHash
                    THEN EndFlow([st EXCEPT !.current = cur.pw], 1)
                    ELSE [st EXCEPT !.current = cur.pw, !.pc = "choose"]
    /\ UNCHANGED <<bench, reader, now, files, dirs, opts, cfg, run, mainPc, exitCode,
                   worklist, nextIdx, wpc, loc, sem, wg, cachedPassword,
                   passwordMu, outcome, reports, touched, archLog, faults,
                   pwEvals, pwFirst, lastCall, snap, lim>>

\* The menu of both flows: a generated password, or a custom one that is
\* read twice, must have eight characters and must be confirmed.
ChoosePassword ==
    /\ setup.pc = "choose"
    /\ \/ \E g \in GeneratedPasswords :
             setup' = [setup EXCEPT !.new = g, !.pc = "save_hash"]
       \/ \E first \in TypedResults, confirm \in TypedResults :
             setup' =
                IF first.err THEN EndFlow(setup, 1)
                ELSE IF PasswordLength(first.pw) < MinPasswordLength
                THEN EndFlow(setup, 1)
                ELSE IF confirm.err THEN EndFlow(setup, 1)
                ELSE IF first.pw # confirm.pw THEN EndFlow(setup, 1)
                ELSE [setup EXCEPT !.new = first.pw, !.pc = "save_hash"]
    /\ UNCHANGED <<bench, reader, now, files, dirs, opts, cfg, run, mainPc, exitCode,
                   worklist, nextIdx, wpc, loc, sem, wg, cachedPassword,
                   passwordMu, outcome, reports, touched, archLog, faults,
                   pwEvals, pwFirst, lastCall, snap, lim>>

\* The configuration the next process reads.
WithConf(o, conf) == [o EXCEPT !.EncryptPassHash = ConfiguredHash(conf)]

\* savePasswordHash(hex(sha256(password))): encryption.conf is written; a
\* failure may leave the file as it was or truncated, and ends the process.
SaveHash ==
    /\ setup.pc = "save_hash"
    /\ \/ /\ setup' = [setup EXCEPT !.conf.enc = Sha256Hex(setup.new),
                                    !.pc = "save_cred"]
          /\ UNCHANGED faults
       \/ /\ CanFail
          /\ faults' = faults + 1
          /\ \/ setup' = EndFlow(setup, 1)
             \/ setup' = EndFlow([setup EXCEPT !.conf.enc = Absent], 1)
    /\ opts' = WithConf(opts, setup'.conf)
    /\ UNCHANGED <<bench, reader, now, files, dirs, cfg, run, mainPc, exitCode,
                   worklist, nextIdx, wpc, loc, sem, wg, cachedPassword,
                   passwordMu, outcome, reports, touched, archLog,
                   pwEvals, pwFirst, lastCall, snap, lim>>

\* savePasswordToCredentials(password): a failure is a warning only.
SaveCredentials ==
    /\ setup.pc = "save_cred"
    /\ setup' = EndFlow(setup, 0)
    /\ \/ /\ opts' = [opts EXCEPT !.credPass = setup.new]
          /\ UNCHANGED faults
       \/ /\ CanFail
          /\ faults' = faults + 1
          /\ \/ UNCHANGED opts
             \/ opts' = [opts EXCEPT !.credPass = ""]
    /\ UNCHANGED <<bench, reader, now, files, dirs, cfg, run, mainPc, exitCode,
                   worklist, nextIdx, wpc, loc, sem, wg, cachedPassword,
                   passwordMu, outcome, reports, touched, archLog,
                   pwEvals, pwFirst, lastCall, snap, lim>>

\* readEncryptedGzFile: decryptData, then decompressGzip.
readEncryptedGzFile(data, pw) ==
    IF pw = ""
    THEN [err |-> "no password provided for decryption", out |-> <<>>]
    ELSE LET d == decryptData(data, pw)
         IN IF d.err # "" THEN d ELSE decompressGzip(d.out)

\* readLogFile, the password given: the suffix of the path selects the
\* stages (archive names end in ArchiveExt; other names are plain text).
readLogFile(path, data, pw) ==
    IF Len(path.name) > 1 /\ path.name[Len(path.name)] = 2
    THEN readEncryptedGzFile(data, pw)
    ELSE IF Len(path.name) > 1 /\ path.name[Len(path.name)] = 1
    THEN decompressGzip(data)
    ELSE [err |-> "", out |-> data]

(***************************************************************************)
(* --read: readLogFile and getDecryptionPassword.                          *)
(***************************************************************************)
NoReader == [pc |-> "off", path |-> NoPath, pr |-> NoPrompt, asked |-> FALSE,
             password |-> "", out |-> NoResult, exit |-> -1]

\* getDecryptionPassword: the plaintext password of the configuration, the
\* credentials file, the environment, then the prompt; a hash, when one is
\* configured, must match what the last three supply.
getDecryptionPassword(c, cred, env, pr) ==
    IF c.EncryptPassword # "" THEN c.EncryptPassword
    ELSE IF SourceAccepted(c, cred) THEN cred
    ELSE IF SourceAccepted(c, env) THEN env
    ELSE IF pr.err THEN ""
    ELSE IF c.EncryptPassHash # "" /\ ~HashMatches(c, pr.pw) THEN ""
    ELSE pr.pw

\* getDecryptionPassword reaches readPassword.
DecryptionNeedsPrompt(c, cred, env) ==
    c.EncryptPassword = "" /\ ~SourceAccepted(c, cred) /\ ~SourceAccepted(c, env)

\* strings.HasSuffix(filePath, ".gz.enc")
IsEncryptedArchive(path) ==
    Len(path.name) > 1 /\ path.name[Len(path.name)] = 2

\* The rest of readLogFile once the password is there: the content is
\* printed, or main reports the error and exits with code 1.
FinishRead(st, pw) ==
    LET r == readLogFile(st.path, files[st.path], pw)
    IN [st EXCEPT !.pc = "done", !.password = pw, !.out = r,
                  !.exit = IF r.err # "" THEN 1 ELSE 0]

\* main with --read: parseFlags, then readLogFile up to the password.
ReadStart ==
    /\ reader.pc = "idle"
    /\ cfg' = parseFlags(opts, now)
    /\ \E path \in (DOMAIN files) \cup {NoPath} :
          LET st == [reader EXCEPT !.path = path]
          IN IF path \notin DOMAIN files
             THEN reader' = [st EXCEPT !.pc = "done", !.exit = 1,
                               !.out = [err |-> "file not found", out |-> <<>>]]
             ELSE IF ~IsEncryptedArchive(path)
             THEN reader' = FinishRead(st, "")
             ELSE IF DecryptionNeedsPrompt(cfg', opts.credPass, opts.envPass)
             THEN reader' = [st EXCEPT !.pc = "prompt"]
             ELSE reader' = FinishRead([st EXCEPT !.asked = TRUE],
                               getDecryptionPassword(cfg', opts.credPass,
                                                     opts.envPass, NoPrompt))
    /\ UNCHANGED <<bench, setup, now, files, dirs, opts, run, mainPc, exitCode,
                   worklist, nextIdx, wpc, loc, sem, wg, cachedPassword,
                   passwordMu, outcome, reports, touched, archLog, faults,
                   pwEvals, pwFirst, lastCall, snap, lim>>

\* readPassword("Enter decryption password: ") returns.
ReadPromptReturns ==
    /\ reader.pc = "prompt"
    /\ \E pr \in PromptResults :
          reader' = FinishRead([reader EXCEPT !.pr = pr, !.asked = TRUE],
                       getDecryptionPassword(cfg, opts.credPass,
                                             opts.envPass, pr))
    /\ UNCHANGED <<bench, setup, now, files, dirs, opts, cfg, run, mainPc,
                   exitCode, worklist, nextIdx, wpc, loc, sem, wg,
                   cachedPassword, passwordMu, outcome, reports, touched,
                   archLog, faults, pwEvals, pwFirst, lastCall, snap, lim>>

(***************************************************************************)
(* Initial states and specifications.                                      *)
(***************************************************************************)
DefaultPattern == [dir |-> <<>>, name |-> AnyLog]
NoCfg == parseFlags([DryRun |-> FALSE, Encrypt |-> FALSE, OldLogsDir |-> <<>>,
                     ParallelJobs |-> 1, EncryptPassword |-> "",
                     EncryptPassHash |-> "", FullTime |-> FALSE,
                     Pattern |-> DefaultPattern, ExcludeFile |-> <<>>,
                     CustomPath |-> FALSE], 0)

\* The log files of the tree: each holds its content, but one may be empty.
InitialTrees ==
    {[q \in {SrcPath(p) : p \in Paths} |->
        IF q.dir[2] \in full THEN FullContent(q.dir[2]) ELSE <<>>] :
     full \in {f \in SUBSET Paths : Cardinality(f) >= NumFiles - 1}}

\* The program before its first run: no process, nothing reported.
InitProcess ==
    /\ now = 0
    /\ cfg = NoCfg
    /\ run = 0
    /\ mainPc = "idle"
    /\ exitCode = -1
    /\ worklist = <<>>
    /\ nextIdx = 1
    /\ wpc = [p \in Ids |-> "idle"]
    /\ loc = [p \in Ids |-> NoLocals]
    /\ sem = 0
    /\ wg = 0
    /\ cachedPassword = ""
    /\ passwordMu = 0
    /\ outcome = [p \in Ids |-> "none"]
    /\ reports = [p \in Ids |-> 0]
    /\ touched = {}
    /\ archLog = {}
    /\ faults = 0
    /\ pwEvals = 0
    /\ pwFirst = "none"
    /\ lastCall = NoCall
    /\ snap = NoSnap

\* The tree before the first run: log files, and no archive yet.
InitCommon ==
    /\ files \in InitialTrees
    /\ dirs = {}
    /\ InitProcess

\* The patterns tried: --pattern "*.log" and "1.log"; exclusion lines
\* "0.log", "<LogDir>/1/*.log" and "<LogDir>/*/1.log".
PatternPool == {DefaultPattern, [dir |-> <<>>, name |-> <<1>>]}
ExcludePool ==
    {[dir |-> <<>>, name |-> <<0>>],
     [dir |-> <<0, 1>>, name |-> AnyLog],
     [dir |-> <<0, -1>>, name |-> <<1>>]}

RotationOptions ==
    [DryRun : BOOLEAN, Encrypt : BOOLEAN, OldLogsDir : {<<>>, <<1>>},
     ParallelJobs : 1..MaxJobs, FullTime : BOOLEAN,
     EncryptPassword : Passwords \cup {""}, EncryptPassHash : {"", Sha256Hex("pw1")},
     credPass : Passwords \cup {""}, envPass : Passwords \cup {""}]

\* The target directory, the pattern and the exclusion file of the runs, and
\* whether the directory and the file exist.
DiscoveryOptions ==
    [Pattern : PatternPool, ExcludeFile : {<<>>, <<7>>},
     CustomPath : BOOLEAN, targetExists : BOOLEAN, excludeExists : BOOLEAN,
     excludePatterns : SUBSET ExcludePool]

\* The default directory exists, every *.log file is wanted, nothing is
\* excluded.
DefaultDiscovery ==
    [Pattern |-> DefaultPattern, ExcludeFile |-> <<>>, CustomPath |-> FALSE,
     targetExists |-> TRUE, excludeExists |-> FALSE, excludePatterns |-> {}]

OptionSets == {r @@ DefaultDiscovery : r \in RotationOptions}

\* The rotation engine: two runs of every mode over every tree, with
\* encryption off, with a plaintext password, with a hash alone (the prompt
\* decides) and with neither; the clock stands still.
Init ==
    /\ InitCommon
    /\ bench = NoBench
    /\ setup = NoSetup
    /\ reader = NoReader
    /\ lim = [runs |-> MaxRuns, clock |-> 0, faults |-> MaxFaults]
    /\ opts \in {o \in OptionSets :
                    /\ ~o.FullTime
                    /\ o.EncryptPassword # "pw2"
                    /\ o.credPass = "" /\ o.envPass = ""
                    /\ ~(o.EncryptPassword # "" /\ o.EncryptPassHash # "")
                    /\ ~o.Encrypt => o.EncryptPassword = "" /\ o.EncryptPassHash = ""}

\* The clock: two runs without encryption while time passes, with both
\* styles of date suffix.
InitClock ==
    /\ InitCommon
    /\ bench = NoBench
    /\ setup = NoSetup
    /\ reader = NoReader
    /\ lim = [runs |-> MaxRuns, clock |-> MaxClock, faults |-> MaxFaults]
    /\ opts \in {o \in OptionSets :
                    /\ ~o.Encrypt
                    /\ o.credPass = "" /\ o.envPass = ""
                    /\ o.EncryptPassword = "" /\ o.EncryptPassHash = ""}

\* The credential resolver: one encrypting run under every combination of
\* configured password, configured hash, credentials file and environment.
InitPw ==
    /\ InitCommon
    /\ bench = NoBench
    /\ setup = NoSetup
    /\ reader = NoReader
    /\ \A p \in Paths : Len(files[SrcPath(p)]) > 0
    /\ lim = [runs |-> 1, clock |-> 0, faults |-> MaxFaults]
    /\ opts \in {o \in OptionSets :
                    o.Encrypt /\ ~o.DryRun /\ ~o.FullTime /\ o.OldLogsDir = <<>>}

\* Configuration and discovery: one run without failures over every tree
\* (cfg.LogDir may name a directory that does not exist), with every
\* pattern and set of exclusion lines, the exclusion file given or not,
\* there or not, encryption off, misconfigured or with a plaintext password.
InitCfg ==
    /\ InitCommon
    /\ bench = NoBench
    /\ setup = NoSetup
    /\ reader = NoReader
    /\ lim = [runs |-> 1, clock |-> 0, faults |-> 0]
    /\ opts \in {r @@ d :
                  r \in {o \in RotationOptions :
                            /\ ~o.DryRun /\ ~o.FullTime /\ o.OldLogsDir = <<>>
                            /\ o.EncryptPassHash = ""
                            /\ o.credPass = "" /\ o.envPass = ""
                            /\ o.EncryptPassword # "pw2"
                            /\ ~o.Encrypt => o.EncryptPassword = ""},
                  d \in {o \in DiscoveryOptions :
                            /\ o.excludeExists => o.ExcludeFile # <<>>
                            /\ ~o.excludeExists => o.excludePatterns = {}}}

\* Plaintexts of at most MaxPlain bytes over the bytes 0, 1 and 255.
PlainBytes == {0, 1, 255}
Plaintexts == UNION {[1..n -> PlainBytes] : n \in 0..MaxPlain}

\* encryptData and decryptData on every plaintext and password; the program
\* is not run.
InitCrypt ==
    /\ InitCommon
    /\ setup = NoSetup
    /\ reader = NoReader
    /\ lim = [runs |-> 0, clock |-> 0, faults |-> 0]
    /\ opts \in {o \in OptionSets :
                    /\ ~o.DryRun /\ ~o.Encrypt /\ ~o.FullTime
                    /\ o.OldLogsDir = <<>> /\ o.ParallelJobs = 1
                    /\ o.EncryptPassword = "" /\ o.EncryptPassHash = ""
                    /\ o.credPass = "" /\ o.envPass = ""}
    /\ bench \in {[NoBench EXCEPT !.pc = "input", !.plain = pt, !.pw = w] :
                     pt \in Plaintexts, w \in Passwords \cup {""}}

\* The password flows: up to MaxSetups invocations of --pass-gen and
\* --pass-reset over every placement of the hash in the configuration
\* files, with and without a credentials file; the rotation is not run.
InitSetup ==
    /\ InitCommon
    /\ bench = NoBench
    /\ reader = NoReader
    /\ lim = [runs |-> 0, clock |-> 0, faults |-> MaxFaults]
    /\ \E conf \in [early : {Absent, Sha256Hex("pw1")},
                    enc : {Absent, Sha256Hex("pw1"), Sha256Hex("pw2")},
                    late : {Absent, "", Sha256Hex("pw1")}],
          cred \in {"", "pw1"} :
          /\ setup = [NoSetup EXCEPT !.pc = "idle", !.conf = conf,
                         !.start = [conf |-> conf, cred |-> cred]]
          /\ opts \in {WithConf([o EXCEPT !.credPass = cred], conf) :
                          o \in {x \in OptionSets :
                                   /\ ~x.DryRun /\ ~x.Encrypt /\ ~x.FullTime
                                   /\ x.OldLogsDir = <<>> /\ x.ParallelJobs = 1
                                   /\ x.EncryptPassword = ""
                                   /\ x.EncryptPassHash = ""
                                   /\ x.credPass = "" /\ x.envPass = ""}}

\* A tree that already holds the archives of today for the log files in
\* done, as an earlier run with the configuration o left them (the log
\* files have been written to since, or are empty).
WithArchives(tree, o, done) ==
    LET c == parseFlags(o, 0)
        archs == {ArchivedFile(c, p, 0) : p \in done}
    IN [q \in (DOMAIN tree) \cup archs |->
          IF q \in DOMAIN tree THEN tree[q]
          ELSE compressGzip(FullContent(
                  CHOOSE p \in done : ArchivedFile(c, p, 0) = q))]

\* One run without encryption, with and without dry-run, over every tree,
\* some of the log files having their archive of today already.
InitArchived ==
    /\ InitProcess
    /\ bench = NoBench
    /\ setup = NoSetup
    /\ reader = NoReader
    /\ lim = [runs |-> 1, clock |-> 0, faults |-> MaxFaults]
    /\ opts \in {o \in OptionSets :
                    /\ ~o.Encrypt /\ ~o.FullTime
                    /\ o.credPass = "" /\ o.envPass = ""
                    /\ o.EncryptPassword = "" /\ o.EncryptPassHash = ""}
    /\ \E tree \in InitialTrees, done \in SUBSET Paths :
          /\ files = WithArchives(tree, opts, done)
          /\ dirs = {ArchivedFile(parseFlags(opts, 0), p, 0).dir : p \in done}

\* The tree --read is tried on: the log files, the archive of file 1 of
\* a run without encryption and the archive of file 2 of an encrypting run
\* that used the password pw.
ReadableTrees ==
    {LET plain == [NoCfg EXCEPT !.Encrypt = FALSE]
         enc == [NoCfg EXCEPT !.Encrypt = TRUE]
     IN Put(Put(tree, ArchivedFile(plain, 1, 0), compressGzip(FullContent(1))),
            ArchivedFile(enc, 2, 0),
            encryptData(compressGzip(FullContent(2)), pw, salt)) :
        tree \in InitialTrees, pw \in Passwords, salt \in Salts}

\* One --read process under every combination of configured password,
\* configured hash, credentials file and environment.
InitRead ==
    /\ InitProcess
    /\ bench = NoBench
    /\ setup = NoSetup
    /\ reader = [NoReader EXCEPT !.pc = "idle"]
    /\ lim = [runs |-> 0, clock |-> 0, faults |-> 0]
    /\ files \in ReadableTrees
    /\ dirs = {q.dir : q \in (DOMAIN files) \ Sources}
    /\ opts \in {o \in OptionSets :
                    /\ ~o.DryRun /\ ~o.Encrypt /\ ~o.FullTime
                    /\ o.OldLogsDir = <<>> /\ o.ParallelJobs = 1}

\* One run without encryption and without failures while the applications
\* go on writing to their log files.
InitWriter ==
    /\ InitCommon
    /\ bench = NoBench
    /\ setup = NoSetup
    /\ reader = NoReader
    /\ lim = [runs |-> 1, clock |-> 0, faults |-> 0]
    /\ opts \in {o \in OptionSets :
                    /\ ~o.Encrypt /\ ~o.FullTime /\ ~o.DryRun
                    /\ o.credPass = "" /\ o.envPass = ""
                    /\ o.EncryptPassword = "" /\ o.EncryptPassHash = ""}

\* Two runs on one day without encryption and without failures, with the
\* default pattern or with --pattern "*".
InitRerun ==
    /\ InitCommon
    /\ bench = NoBench
    /\ setup = NoSetup
    /\ reader = NoReader
    /\ lim = [runs |-> 2, clock |-> 0, faults |-> 0]
    /\ opts \in {[o EXCEPT !.Pattern = pat] :
                    o \in {r \in OptionSets :
                             /\ ~r.Encrypt /\ ~r.FullTime /\ ~r.DryRun
                             /\ r.credPass = "" /\ r.envPass = ""
                             /\ r.EncryptPassword = "" /\ r.EncryptPassHash = ""},
                    pat \in {DefaultPattern, [dir |-> <<>>, name |-> AnyName]}}

\* One parallel run of every degree from 2 up, without encryption, with a
\* plaintext password or with a hash alone (the prompt decides), with and
\* without a failing call.
InitPar ==
    /\ InitCommon
    /\ bench = NoBench
    /\ setup = NoSetup
    /\ reader = NoReader
    /\ lim = [runs |-> 1, clock |-> 0, faults |-> MaxFaults]
    /\ opts \in {o \in OptionSets :
                    /\ o.ParallelJobs >= 2
                    /\ ~o.FullTime /\ ~o.DryRun
                    /\ o.EncryptPassword # "pw2"
                    /\ o.credPass = "" /\ o.envPass = ""
                    /\ ~(o.EncryptPassword # "" /\ o.EncryptPassHash # "")
                    /\ ~o.Encrypt => o.EncryptPassword = "" /\ o.EncryptPassHash = ""}

Next ==
    \/ StartRun
    \/ \E p \in Ids : StatAndCheck(p)
    \/ \E p \in Ids : ReadAndCompress(p)
    \/ \E p \in Ids : GetPassword(p)
    \/ \E p \in Ids : PromptReturns(p)
    \/ \E p \in Ids : WriteArchive(p)
    \/ \E p \in Ids : TruncateSource(p)
    \/ SeqCall
    \/ SeqDone
    \/ ParSpawn
    \/ \E p \in Ids : GoroutineExit(p)
    \/ ParDone
    \/ \E p \in Paths : ExtRemove(p)

\* Without encryption getEncryptionPassword is never called.
NextClock ==
    \/ StartRun
    \/ \E p \in Ids : StatAndCheck(p)
    \/ \E p \in Ids : ReadAndCompress(p)
    \/ \E p \in Ids : WriteArchive(p)
    \/ \E p \in Ids : TruncateSource(p)
    \/ SeqCall
    \/ SeqDone
    \/ ParSpawn
    \/ \E p \in Ids : GoroutineExit(p)
    \/ ParDone
    \/ \E p \in Paths : ExtRemove(p)

\* No failure is injected and no prompt is reached.
NextCfg ==
    \/ StartRun
    \/ \E p \in Ids : StatAndCheck(p)
    \/ \E p \in Ids : ReadAndCompress(p)
    \/ \E p \in Ids : GetPassword(p)
    \/ \E p \in Ids : WriteArchive(p)
    \/ \E p \in Ids : TruncateSource(p)
    \/ SeqCall
    \/ SeqDone
    \/ ParSpawn
    \/ \E p \in Ids : GoroutineExit(p)
    \/ ParDone

NextCrypt == CallEncrypt \/ Damage \/ CallDecrypt

\* The run and the writers of the log files.
NextWriter ==
    \/ StartRun
    \/ \E p \in Ids : StatAndCheck(p)
    \/ \E p \in Ids : ReadAndCompress(p)
    \/ \E p \in Ids : WriteArchive(p)
    \/ \E p \in Ids : TruncateSource(p)
    \/ SeqCall
    \/ SeqDone
    \/ ParSpawn
    \/ \E p \in Ids : GoroutineExit(p)
    \/ ParDone
    \/ \E p \in Paths : ExtAppend(p)

\* The runs alone: nothing else touches the tree.
NextRerun ==
    \/ StartRun
    \/ \E p \in Ids : StatAndCheck(p)
    \/ \E p \in Ids : ReadAndCompress(p)
    \/ \E p \in Ids : WriteArchive(p)
    \/ \E p \in Ids : TruncateSource(p)
    \/ SeqCall
    \/ SeqDone
    \/ ParSpawn
    \/ \E p \in Ids : GoroutineExit(p)
    \/ ParDone

\* rotateParallel and its goroutines.
NextPar ==
    \/ StartRun
    \/ \E p \in Ids : StatAndCheck(p)
    \/ \E p \in Ids : ReadAndCompress(p)
    \/ \E p \in Ids : GetPassword(p)
    \/ \E p \in Ids : PromptReturns(p)
    \/ \E p \in Ids : WriteArchive(p)
    \/ \E p \in Ids : TruncateSource(p)
    \/ ParSpawn
    \/ \E p \in Ids : GoroutineExit(p)
    \/ ParDone

NextRead == ReadStart \/ ReadPromptReturns

NextSetup ==
    \/ PassGenStart
    \/ PassResetStart
    \/ ChoosePassword
    \/ SaveHash
    \/ SaveCredentials

Spec == Init /\ [][Next]_vars
SpecCrypt == InitCrypt /\ [][NextCrypt]_vars
SpecCfg == InitCfg /\ [][NextCfg]_vars
SpecClock == InitClock /\ [][NextClock]_vars
SpecPw == InitPw /\ [][Next]_vars
SpecSetup == InitSetup /\ [][NextSetup]_vars
SpecRead == InitRead /\ [][NextRead]_vars
SpecWriter == InitWriter /\ [][NextWriter]_vars
SpecArchived == InitArchived /\ [][NextClock]_vars
SpecRerun == InitRerun /\ [][NextRerun]_vars

\* The Go scheduler runs every goroutine that can take a step, the calls a
\* rotation makes return (readPassword included), and a process that was
\* started goes on.
Scheduling ==
    /\ WF_vars(ParSpawn)
    /\ WF_vars(ParDone)
    /\ \A p \in Ids :
        /\ WF_vars(StatAndCheck(p))
        /\ WF_vars(ReadAndCompress(p))
        /\ WF_vars(GetPassword(p))
        /\ WF_vars(PromptReturns(p))
        /\ WF_vars(WriteArchive(p))
        /\ WF_vars(TruncateSource(p))
        /\ WF_vars(GoroutineExit(p))
SpecPar == InitPar /\ [][NextPar]_vars /\ Scheduling

(***************************************************************************)
(* Properties.                                                             *)
(***************************************************************************)
Range(w) == {w[i] : i \in 1..Len(w)}

\* The archives of a tree: every file that is not one of the log files.
ArchivesOf(fs) == [q \in (DOMAIN fs) \ Sources |-> fs[q]]

\* Archive writes of the current run that succeeded for candidate p.
WrittenInRun(p) == {e \in archLog : e.src = p /\ e.run = run}

\* C1: a source file is truncated by the program only after os.WriteFile of
\* its archive has succeeded in the same call, the archive being on disk; a
\* file whose rotation failed before or during the archive write has not
\* been truncated and still holds the content it had when the run started.
C1_TruncateAfterArchive ==
    \A p \in Paths :
        /\ SrcPath(p) \in touched =>
              \E e \in WrittenInRun(p) : e.arch \in DOMAIN files
        /\ outcome[p] \in ErrorsBeforeArchive =>
              /\ SrcPath(p) \notin touched
              /\ Exists(SrcPath(p)) =>
                    files[SrcPath(p)] = snap.files[SrcPath(p)]

C1_Witness ==
    \E p \in Paths, q \in Paths :
        /\ outcome[p] = "rotated"
        /\ SrcPath(p) \in touched
        /\ Exists(SrcPath(p))
        /\ files[SrcPath(p)] = <<>>
        /\ outcome[q] = "err_write"
        /\ Exists(SrcPath(q))
        /\ Len(files[SrcPath(q)]) > 0

\* The second of two runs has completed, with the date suffix of the first,
\* and every clock reading of both runs fell on the day the first started.
SecondRunSameDay ==
    /\ run >= 2
    /\ mainPc = "completed"
    /\ snap.valid
    /\ snap.suffix = cfg.DateSuffix
    /\ FormatDate(now) = <<cfg.DateSuffix[1]>>

C3_OncePerDateSuffix ==
    \A e1 \in archLog, e2 \in archLog :
        (e1.src = e2.src /\ e1.suffix = e2.suffix) => e1 = e2

\* C4: under dry-run the program creates, writes, truncates and chmods
\* nothing: no path is touched, no directory is made, and every file still
\* has the content it had when the run started.
C4_DryRunWritesNothing ==
    (run >= 1 /\ cfg.DryRun) =>
        /\ touched = {}
        /\ dirs = snap.dirs
        /\ \A q \in DOMAIN files :
              q \in DOMAIN snap.files /\ files[q] = snap.files[q]

C4_Witness ==
    /\ cfg.DryRun
    /\ cfg.Encrypt
    /\ cfg.Parallel
    /\ mainPc = "completed"
    /\ \E p \in Paths : outcome[p] = "dryrun"
    /\ \E p \in Paths : outcome[p] = "empty"

\* rotateSequential over the list w on the tree fs when nothing fails and
\* nothing is encrypted: the tree, the directories and the outcomes it
\* leaves, with the clock at t.
RECURSIVE SeqRotate(_, _, _, _, _, _)
SeqRotate(fs, ds, c, t, w, oc) ==
    IF w = <<>>
    THEN [files |-> fs, dirs |-> ds, outcome |-> oc]
    ELSE LET p == Head(w)
             src == SrcPath(p)
             arch == ArchivedFile(c, p, t)
         IN IF src \notin DOMAIN fs
            THEN SeqRotate(fs, ds, c, t, Tail(w), [oc EXCEPT ![p] = "missing"])
            ELSE IF Len(fs[src]) = 0
            THEN SeqRotate(fs, ds, c, t, Tail(w), [oc EXCEPT ![p] = "empty"])
            ELSE IF arch \in DOMAIN fs
            THEN SeqRotate(fs, ds, c, t, Tail(w), [oc EXCEPT ![p] = "already"])
            ELSE IF c.DryRun
            THEN SeqRotate(fs, ds, c, t, Tail(w), [oc EXCEPT ![p] = "dryrun"])
            ELSE SeqRotate(Put(Put(fs, arch, compressGzip(fs[src])), src, <<>>),
                           ds \cup {arch.dir}, c, t, Tail(w),
                           [oc EXCEPT ![p] = "rotated"])

\* The run that has completed agrees with rotateSequential on the tree it
\* started from, for some order findLogFiles may return.
AgreesWithSequential ==
    \E w \in findLogFiles(snap.files, cfg, opts) :
        LET r == SeqRotate(snap.files, snap.dirs, cfg, now, w,
                           [p \in Ids |-> "none"])
        IN outcome = r.outcome /\ files = r.files /\ dirs = r.dirs

\* C5 as stated: with no failures, a parallel run ends with the per-file
\* outcomes and the file-system state of the sequential run on the same
\* starting tree.
C5_ParallelAsSequential ==
    (mainPc = "completed" /\ cfg.Parallel /\ ~cfg.Encrypt /\ faults = 0)
        => AgreesWithSequential

\* Workers that are inside rotateLogFile.
Executing == {p \in Ids : wpc[p] \in Running}

\* C6: in parallel mode the number of workers executing rotateLogFile at
\* one time never exceeds cfg.ParallelJobs.
C6_BoundedConcurrency ==
    cfg.Parallel => Cardinality(Executing) <= cfg.ParallelJobs

C6_Witness ==
    /\ cfg.Parallel
    /\ mainPc = "rotate"
    /\ Cardinality(Executing) = cfg.ParallelJobs
    /\ nextIdx <= Len(worklist)

\* C7: when rotateParallel has returned, every worker it launched has left
\* rotateLogFile, has reported its outcome and has run its deferred calls.
C7_JoinAll ==
    (cfg.Parallel /\ mainPc = "completed") =>
        /\ \A p \in Range(worklist) :
              wpc[p] = "exited" /\ outcome[p] \in Outcomes
        /\ wg = 0
        /\ sem = 0

C7_Witness ==
    /\ cfg.Parallel
    /\ mainPc = "completed"
    /\ Len(worklist) = NumFiles
    /\ \E p \in Paths : outcome[p] = "rotated"
    /\ \E p \in Paths : outcome[p] \in Errors

\* C8: no outcome is reported twice for a candidate; when the run has
\* completed, every candidate of the list has exactly one outcome, whatever
\* failed for the others, and the exit code is 0.
C8_FailureIsolation ==
    /\ \A p \in Paths : reports[p] <= 1
    /\ mainPc = "completed" =>
          /\ exitCode = 0
          /\ \A p \in Range(worklist) :
                reports[p] = 1 /\ outcome[p] \in Outcomes

C8_Witness ==
    /\ mainPc = "completed"
    /\ exitCode = 0
    /\ \E i \in 1..Len(worklist), j \in 1..Len(worklist) :
          /\ i < j
          /\ outcome[worklist[i]] \in Errors
          /\ outcome[worklist[j]] = "rotated"

\* C9 as stated: in one run the source chain is evaluated at most once, and
\* every later call returns the result of the first call, a failed
\* resolution included.
C9_ResolvedOnce ==
    /\ pwEvals <= 1
    /\ pwFirst # "none" => lastCall.ret = pwFirst

\* The fixed order of the sources, and what each source offers to a call.
SourceOrder == <<"cache", "config", "credentials", "env", "prompt">>
Offered(src) ==
    CASE src = "cache" -> lastCall.cached
      [] src = "config" -> cfg.EncryptPassword
      [] src = "credentials" -> opts.credPass
      [] src = "env" -> opts.envPass
      [] src = "prompt" -> lastCall.pr.pw

\* Whether what a source offers is a password the resolver may return.
Supplies(src) ==
    CASE src \in {"cache", "config"} -> Offered(src) # ""
      [] src \in {"credentials", "env"} ->
            /\ Offered(src) # ""
            /\ cfg.EncryptPassHash # "" => Sha256Hex(Offered(src)) = cfg.EncryptPassHash
      [] src = "prompt" ->
            /\ cfg.EncryptPassHash # ""
            /\ ~lastCall.pr.err
            /\ Sha256Hex(Offered(src)) = cfg.EncryptPassHash

\* C10: a call of getEncryptionPassword consults the sources in the order
\* cache, configured password, credentials file, environment, prompt,
\* skipping none; it stops at the first source that supplies a password and
\* returns that password, and returns the empty password when none does.
C10_SourceOrder ==
    LET k == Len(lastCall.trail)
    IN k > 0 =>
        /\ lastCall.trail = SubSeq(SourceOrder, 1, k)
        /\ \A i \in 1..(k - 1) : ~Supplies(SourceOrder[i])
        /\ IF Supplies(SourceOrder[k])
           THEN lastCall.ret = Offered(SourceOrder[k])
           ELSE lastCall.ret = "" /\ k >= 4

C10_Witness ==
    /\ lastCall.trail = SubSeq(SourceOrder, 1, 4)
    /\ opts.credPass = "pw2"
    /\ opts.envPass = "pw1"
    /\ cfg.EncryptPassHash = Sha256Hex("pw1")
    /\ lastCall.ret = "pw1"
    /\ \E p \in Paths : wpc[p] = "write"

\* Archive writes of the current run that were encrypted.
EncryptedInRun == {e \in archLog : e.run = run /\ e.pw # ""}

\* C11 as stated: with a hash configured, every encrypted archive of the
\* run was produced with a password that hashes to the configured hash,
\* whatever source the password came from.
C11_OnlyVerifiedPasswords ==
    cfg.EncryptPassHash # "" =>
        \A e \in EncryptedInRun : Sha256Hex(e.pw) = cfg.EncryptPassHash

\* C11, amended: with a hash configured and no plaintext password in the
\* configuration, every encrypted archive of the run was produced with a
\* password that hashes to the configured hash; a plaintext password in the
\* configuration is used as it is, whether it hashes to the hash or not.
C11_VerifiedUnlessConfigured ==
    cfg.EncryptPassHash # "" =>
        \A e \in EncryptedInRun :
            IF cfg.EncryptPassword # ""
            THEN e.pw = cfg.EncryptPassword
            ELSE Sha256Hex(e.pw) = cfg.EncryptPassHash

C11_Witness ==
    /\ cfg.EncryptPassHash = Sha256Hex("pw1")
    /\ cfg.EncryptPassword = ""
    /\ opts.credPass = "pw2"
    /\ opts.envPass = "pw1"
    /\ \E e \in EncryptedInRun : e.pw = "pw1" /\ e.arch \in DOMAIN files

\* The last call walked the chain with a hash configured and no plaintext
\* password in the configuration.
ChainWalkedWithHash ==
    /\ Len(lastCall.trail) > 1
    /\ cfg.EncryptPassHash # ""
    /\ cfg.EncryptPassword = ""

Mismatches(pw) == pw # "" /\ Sha256Hex(pw) # cfg.EncryptPassHash

\* C12: with a hash configured, a credentials-file password that does not
\* hash to it is not returned and the environment is consulted next; an
\* environment password that does not hash to it is not returned and, the
\* credentials file having supplied nothing, the prompt is consulted next.
C12_MismatchFallsThrough ==
    ChainWalkedWithHash =>
        /\ Mismatches(opts.credPass) =>
              /\ lastCall.ret # opts.credPass
              /\ Len(lastCall.trail) >= 4
              /\ lastCall.trail[4] = "env"
        /\ (Mismatches(opts.envPass) /\ ~Supplies("credentials")) =>
              /\ lastCall.ret # opts.envPass
              /\ Len(lastCall.trail) = 5
              /\ lastCall.trail[5] = "prompt"

C12_Witness ==
    /\ ChainWalkedWithHash
    /\ Mismatches(opts.credPass)
    /\ Mismatches(opts.envPass)
    /\ lastCall.trail[5] = "prompt"
    /\ lastCall.ret = "pw1"

\* The first non-empty password among the configuration, the credentials
\* file and the environment.
FirstAvailable ==
    IF cfg.EncryptPassword # "" THEN cfg.EncryptPassword
    ELSE IF opts.credPass # "" THEN opts.credPass
    ELSE opts.envPass

\* C13 as stated: with encryption on and no hash configured, a password
\* available from a source is accepted without verification and used for
\* the encryption of the run: the run is not refused, no file fails for want
\* of a password, and every archive is encrypted with that password.
C13_NoHashFirstPasswordUsed ==
    (run >= 1 /\ cfg.Encrypt /\ cfg.EncryptPassHash = "" /\ FirstAvailable # "")
        => /\ exitCode # 1
           /\ \A p \in Paths : outcome[p] # "err_password"
           /\ \A e \in archLog : e.run = run => e.pw = FirstAvailable

\* C14: a file for which the resolver returned the empty password is
\* reported with the no-password error: no archive was written for it, it
\* was not truncated and it holds the content it had when the run started;
\* no archive of an encrypting run was written without a password; and the
\* run completes with an outcome for every file of the list.
C14_NoPasswordAbortsFile ==
    /\ \A p \in Paths :
          outcome[p] = "err_password" =>
              /\ WrittenInRun(p) = {}
              /\ SrcPath(p) \notin touched
              /\ Exists(SrcPath(p)) =>
                    files[SrcPath(p)] = snap.files[SrcPath(p)]
    /\ cfg.Encrypt => \A e \in archLog : e.run = run => e.pw # ""
    /\ mainPc = "completed" =>
          \A p \in Range(worklist) : outcome[p] \in Outcomes

C14_Witness ==
    /\ mainPc = "completed"
    /\ \E i \in 1..Len(worklist), j \in 1..Len(worklist) :
          /\ i < j
          /\ outcome[worklist[i]] = "err_password"
          /\ Exists(SrcPath(worklist[i]))
          /\ Len(files[SrcPath(worklist[i])]) > 0
          /\ outcome[worklist[j]] = "rotated"

\* A configuration error of the run, read from its options: the custom
\* directory is missing, the exclusion file is missing, or encryption is on
\* and no source holds a password and no hash is configured.
ConfigurationError ==
    \/ opts.CustomPath /\ ~opts.targetExists
    \/ opts.ExcludeFile # <<>> /\ ~opts.excludeExists
    \/ /\ opts.Encrypt
       /\ opts.EncryptPassword = "" /\ opts.EncryptPassHash = ""
       /\ opts.credPass = "" /\ opts.envPass = ""

\* C15: a run with a configuration error has exited with code 1 without
\* discovery or rotation: the list is empty, no worker was started, no path
\* was touched, and files and directories are as they were.
C15_ConfigErrorExitsFirst ==
    (run >= 1 /\ ConfigurationError) =>
        /\ mainPc = "exited"
        /\ exitCode = 1
        /\ worklist = <<>>
        /\ \A p \in Paths : wpc[p] = "idle" /\ outcome[p] = "none"
        /\ touched = {}
        /\ files = snap.files
        /\ dirs = snap.dirs

C15_Witness ==
    /\ run >= 1
    /\ mainPc = "exited"
    /\ exitCode = 1
    /\ opts.ExcludeFile # <<>>
    /\ ~opts.excludeExists
    /\ ~opts.Encrypt
    /\ opts.targetExists
    /\ \E p \in Paths : Len(files[SrcPath(p)]) > 0

\* Discovery has run: the run passed the validation of main.
Discovered == run >= 1 /\ (mainPc \in {"rotate", "completed"} \/ exitCode = 0)

\* The files of the tree when the run started, as discovery saw them.
TreeAtStart == IF opts.targetExists THEN DOMAIN snap.files ELSE {}

\* C16: a file whose full path or base name matches an exclusion pattern
\* is not in the list, even when its base name matches the inclusion
\* pattern; a file of the tree whose base name matches the inclusion pattern
\* and that no exclusion pattern matches is in the list; and the list holds
\* no file twice.
C16_Filtering ==
    Discovered =>
        /\ \A p \in Range(worklist) :
              ~\E e \in loadExcludePatterns(cfg, opts) :
                    \/ Match(e, SrcDir(p), SrcName(p))
                    \/ Match(e, <<>>, SrcName(p))
        /\ \A q \in TreeAtStart :
              (/\ Match(cfg.Pattern, <<>>, q.name)
               /\ \A e \in loadExcludePatterns(cfg, opts) :
                     ~Match(e, q.dir, q.name) /\ ~Match(e, <<>>, q.name))
                  => \E p \in Range(worklist) : SrcPath(p) = q
        /\ \A i \in 1..Len(worklist), j \in 1..Len(worklist) :
              worklist[i] = worklist[j] => i = j

C16_Witness ==
    /\ Discovered
    /\ cfg.Pattern = DefaultPattern
    /\ loadExcludePatterns(cfg, opts) =
          {[dir |-> <<>>, name |-> <<0>>], [dir |-> <<0, 1>>, name |-> AnyLog]}
    /\ Range(worklist) = {3}
    /\ mainPc = "completed"

\* C17: the list is sorted ascending by the sizes the files had at
\* discovery, every file being no larger than its successor; and in
\* sequential mode rotateLogFile is called for a file only after it has
\* returned for every file before it in the list.
C17_SortedBySize ==
    Discovered =>
        /\ \A i \in 1..(Len(worklist) - 1) :
              Len(snap.files[SrcPath(worklist[i])])
                 <= Len(snap.files[SrcPath(worklist[i + 1])])
        /\ ~cfg.Parallel =>
              \A i \in 1..Len(worklist), j \in 1..Len(worklist) :
                  (i < j /\ wpc[worklist[j]] # "idle")
                      => wpc[worklist[i]] = "exited"

C17_Witness ==
    /\ ~cfg.Parallel
    /\ mainPc = "rotate"
    /\ Len(worklist) = NumFiles
    /\ Len(snap.files[SrcPath(worklist[1])]) = 0
    /\ Len(snap.files[SrcPath(worklist[2])]) = 1
    /\ Len(snap.files[SrcPath(worklist[3])]) = 2
    /\ outcome[worklist[1]] = "empty"
    /\ outcome[worklist[2]] = "rotated"
    /\ wpc[worklist[3]] = "truncate"

AuthFailure == "decryption failed - incorrect password or corrupted file"

\* C18: decryptData applied to what encryptData returned, with the same
\* password, returns the plaintext and no error; with any other password it
\* returns the decryption-failure error and no plaintext.
C18_RoundTrip ==
    (bench.pc = "opened" /\ bench.damage = "none") =>
        IF bench.tried = bench.pw
        THEN bench.out = [err |-> "", out |-> bench.plain]
        ELSE bench.out = [err |-> AuthFailure, out |-> <<>>]

C18_Witness ==
    /\ bench.pc = "opened"
    /\ bench.damage = "none"
    /\ bench.plain = <<255, 1>>
    /\ bench.pw = "pw1"
    /\ bench.tried = "pw1"
    /\ bench.out.out = <<255, 1>>

\* C19 as stated: every failure of decryptData, whatever its cause, is the
\* one decryption-failure error.
C19_OneFailureOutcome ==
    (bench.pc = "opened" /\ bench.out.err # "") => bench.out.err = AuthFailure

\* C19, amended: an envelope shorter than the header and a tag is rejected
\* as too short and one with a wrong magic as an invalid format, each with
\* its own error; every other failure (wrong password, changed salt, nonce,
\* ciphertext or tag, ciphertext cut short) is the one decryption-failure
\* error; and no failure returns plaintext.
C19_AuthFailuresAlike ==
    (bench.pc = "opened" /\ bench.out.err # "") =>
        /\ bench.out.out = <<>>
        /\ bench.out.err =
              IF Len(bench.data) < minLen THEN "encrypted data too short"
              ELSE IF bench.damage = "magic" THEN "invalid encrypted file format"
              ELSE AuthFailure
        /\ bench.out.err = AuthFailure <=>
              \/ bench.damage \in {"salt", "nonce", "ciphertext", "tag"}
              \/ bench.damage = "cut" /\ Len(bench.data) >= minLen
              \/ bench.damage = "none" /\ bench.tried # bench.pw

C19_Witness ==
    /\ bench.pc = "opened"
    /\ bench.damage = "ciphertext"
    /\ bench.tried = bench.pw
    /\ bench.out.err = AuthFailure

\* C20 as stated: after a file was reported rotated, the source (if it is
\* still there) is empty, and the archive written for it exists at
\* <root>/<date>/<name>.<suffix>.<ext> and, read through readLogFile with
\* the password it was encrypted with, gives the content the source had
\* when the run started.
C20_EndToEnd ==
    \A p \in Paths :
        outcome[p] = "rotated" =>
            /\ Exists(SrcPath(p)) => files[SrcPath(p)] = <<>>
            /\ \E e \in WrittenInRun(p) :
                  /\ \E t \in 0..now : e.arch = ArchivedFile(cfg, p, t)
                  /\ e.arch \in DOMAIN files
                  /\ readLogFile(e.arch, files[e.arch], e.pw)
                        = [err |-> "", out |-> snap.files[SrcPath(p)]]

\* One step of the worker of candidate q inside rotateLogFile.
WorkerStep(q) ==
    \/ StatAndCheck(q)
    \/ ReadAndCompress(q)
    \/ GetPassword(q)
    \/ PromptReturns(q)
    \/ WriteArchive(q)
    \/ TruncateSource(q)

\* The calls of rotateLogFile that wait for something outside the program:
\* os.ReadFile, readPassword, os.WriteFile and os.Truncate.
BlockingCalls == {"read", "prompt", "write", "truncate"}

\* C21 as stated: in parallel mode, while one worker waits in a blocking
\* call, every other worker that is inside rotateLogFile can take its next
\* step: it does not wait for the blocked worker, with or without
\* encryption.
C21_StuckStallsOnlyItsSlot ==
    cfg.Parallel =>
        \A p \in Paths, q \in Paths :
            (p # q /\ wpc[p] \in BlockingCalls /\ wpc[q] \in Running)
                => ENABLED WorkerStep(q)

\* C22: --pass-gen started with a hash configured changes neither the
\* configuration files nor the credentials file; and when a hash was
\* configured at the start of a flow, the configuration files differ from
\* what they were only in the reset flow, after the current password that
\* was entered hashed to that hash.
C22_SetupOnlyResetAfterVerify ==
    /\ (setup.flow = "gen" /\ setup.existing # "") =>
          /\ setup.conf = setup.start.conf
          /\ opts.credPass = setup.start.cred
    /\ (ConfiguredHash(setup.start.conf) # "" /\ setup.conf # setup.start.conf) =>
          /\ setup.flow = "reset"
          /\ Sha256Hex(setup.current) = ConfiguredHash(setup.start.conf)
    /\ opts.EncryptPassHash = ConfiguredHash(setup.conf)

C22_Witness ==
    /\ setup.pc = "done"
    /\ setup.flow = "gen"
    /\ setup.exit = 0
    /\ setup.prev = [flow |-> "reset", changed |-> TRUE]
    /\ setup.existing = Sha256Hex("pw2")
    /\ setup.conf = setup.start.conf
    /\ opts.credPass = "pw2"

\* C23: when the head of rotateLogFile has run for a file, a file that is
\* missing is reported missing; one that is empty is reported empty,
\* whether its archive exists or not; one that is not empty and whose
\* archive exists is reported already rotated, under dry-run too; one
\* without an archive is reported as a dry run under dry-run, and otherwise
\* goes on to rotation; and a file reported with one of these four outcomes
\* left files, directories and the set of touched paths as they were.
C23_OutcomePrecedence ==
    [][\A p \in Paths :
         (wpc[p] = "stat" /\ wpc'[p] # "stat") =>
            LET src == SrcPath(p)
                arch == ArchivedFile(cfg, p, now')
                full == Exists(src) /\ Len(files[src]) > 0
            IN /\ ~Exists(src) => outcome'[p] = "missing"
               /\ (Exists(src) /\ Len(files[src]) = 0) => outcome'[p] = "empty"
               /\ (full /\ arch \in DOMAIN files) => outcome'[p] = "already"
               /\ (full /\ arch \notin DOMAIN files /\ cfg.DryRun)
                     => outcome'[p] = "dryrun"
               /\ (full /\ arch \notin DOMAIN files /\ ~cfg.DryRun)
                     => outcome'[p] \notin Skips
               /\ outcome'[p] \in Skips =>
                     files' = files /\ dirs' = dirs /\ touched' = touched
     ]_vars

C23_Witness ==
    /\ cfg.DryRun
    /\ mainPc = "completed"
    /\ touched = {}
    /\ \E p \in Paths, q \in Paths, r \in Paths :
          /\ outcome[p] = "already"
          /\ ArchivedFile(cfg, p, now) \in DOMAIN files
          /\ outcome[q] = "empty"
          /\ ArchivedFile(cfg, q, now) \in DOMAIN files
          /\ outcome[r] = "dryrun"

\* C24 as stated: the password getDecryptionPassword returned to a --read
\* process is the one getEncryptionPassword returns to a fresh process
\* (empty cache) under the same configuration, credentials file,
\* environment and prompt input.
C24_SameResolution ==
    (reader.pc = "done" /\ reader.asked) =>
        reader.password =
            getEncryptionPassword("", cfg, opts.credPass, opts.envPass,
                                  reader.pr).ret

\* C25 as stated: in one run no archive path is written for more than one
\* candidate.
C25_OneWriterPerArchive ==
    \A e1 \in archLog, e2 \in archLog :
        (e1.run = e2.run /\ e1.arch = e2.arch) => e1.src = e2.src

\* C26 as stated: when os.Truncate empties a source file, the content the
\* file has at that moment is the content of the archive that was written
\* for it: nothing appended since the file was read is discarded.
C26_NothingAppendedIsLost ==
    [][\A p \in Paths :
         (wpc[p] = "truncate" /\ outcome'[p] = "rotated") =>
            decompressGzip(loc[p].data).out = files[SrcPath(p)]
     ]_vars

\* C27: while a process runs, cachedPassword, once it is not empty, keeps
\* its value through every step of every worker; and the archives of the
\* run that were encrypted were all encrypted with one password, the cached
\* one.
C27_CachedPasswordStable ==
    [][/\ (cachedPassword # "" /\ run' = run) => cachedPassword' = cachedPassword
       /\ \A e \in EncryptedInRun' : e.pw = cachedPassword'
       /\ \A e1 \in EncryptedInRun', e2 \in EncryptedInRun' : e1.pw = e2.pw
     ]_vars

C27_Witness ==
    /\ cfg.Parallel
    /\ cachedPassword = "pw1"
    /\ lastCall.trail = <<"cache">>
    /\ pwEvals >= 2
    /\ Cardinality({e.src : e \in EncryptedInRun}) >= 2

\* C28: an archive is immutable once written.  A file an earlier run wrote
\* as an archive is not among the candidates of a later run, and while the
\* later run works the file stays in the tree with the bytes it had when
\* the run started.
C28_ArchivesImmutable ==
    \A e \in archLog :
        (e.run < run /\ e.arch \in DOMAIN snap.files) =>
            /\ \A i \in 1..Len(worklist) : SrcPath(worklist[i]) # e.arch
            /\ e.arch \in DOMAIN files
            /\ files[e.arch] = snap.files[e.arch]

\* C29: a failed write of an archive leaves no file that passes for the
\* archive.  Archives being written per source directory, when a run skips
\* a log file as already rotated and the file still holds its content, the
\* file at the archive path reads back (with some password, if encrypted)
\* as that content.
C29_SkippedOnlyForCompleteArchive ==
    \A p \in Paths :
        LET arch == ArchivedFile(cfg, p, now)
        IN (/\ cfg.OldLogsDir = <<>>
            /\ outcome[p] = "already"
            /\ Exists(SrcPath(p))
            /\ Exists(arch)) =>
               \E pw \in Passwords :
                   LET r == readLogFile(arch, files[arch], pw)
                   IN r.err = "" /\ r.out = files[SrcPath(p)]

\* C30: rotateParallel terminates.  A parallel run that has started its
\* rotation completes; when it has completed every candidate was admitted
\* through the semaphore, every goroutine has run its deferred calls, no
\* slot is taken and passwordMu is unlocked.
C30_ParallelTerminates ==
    /\ (mainPc = "rotate" /\ cfg.Parallel) ~> (mainPc = "completed")
    /\ []((mainPc = "completed" /\ cfg.Parallel) =>
            /\ nextIdx > Len(worklist)
            /\ \A p \in Range(worklist) : wpc[p] = "exited"
            /\ sem = 0
            /\ wg = 0
            /\ passwordMu = 0)

\* A parallel run of more candidates than slots has completed after the
\* prompt was answered while passwordMu was held.
C30_Witness ==
    /\ mainPc = "completed"
    /\ cfg.Parallel
    /\ Len(worklist) > cfg.ParallelJobs
    /\ cfg.Encrypt
    /\ lastCall.pr # NoPrompt
    /\ \E p \in Paths : outcome[p] = "rotated"

====
